---- MODULE Spec2Model ----
(***************************************************************************)
(* A model of the Mandelbrot viewer of src/src/app.ts (the first main() of *)
(* the file, lines 292-381, and the functions it calls; the later main()    *)
(* of the file and the earlier draft of the program have no listeners for  *)
(* the fragment, the reset button or the overlay and are not modelled).    *)
(*                                                                         *)
(* Numbers.  A JavaScript number is modelled as a record                   *)
(*     [k |-> "fin" | "inf" | "nan", s |-> 1 | -1, n |-> Nat, d |-> Nat]   *)
(* "fin" is the rational s*n/d in lowest terms (zero is 0/1 and keeps its  *)
(* sign, as IEEE 754 zeros do), "inf" is s*Infinity, "nan" is NaN.  The    *)
(* arithmetic below follows IEEE 754 for the special values and is exact   *)
(* on the finite ones: the rounding of a double is not modelled.           *)
(***************************************************************************)
EXTENDS Integers, Sequences, FiniteSets, TLC

VARIABLES
    canvasW,            \* main: canvasW (buffer width in pixels)
    canvasH,            \* main: canvasH (buffer height in pixels)
    hash,               \* window.location.hash: a sequence of <<key, text>> pairs
    renderState,        \* main: renderState, [re, im, scale]
    mouseDownCanvasX,   \* main: mouseDownCanvasX
    mouseDownCanvasY,   \* main: mouseDownCanvasY
    dragging,           \* main: dragging
    timers,             \* pending setTimeout callbacks of draw(), oldest first;
                        \* each entry records the view draw() checked
    background,         \* canvases.background: blank, or the view it was drawn from
    overlay,            \* canvases.overlay: "clear" or the rubber band "rect"
    cursor,             \* document.body.style.cursor
    lastDraw,           \* what the latest call of draw() did: "none", "skipped", "scheduled"
    lastEvent,          \* the latest event handled, with its inputs and the view before it
    nGestures,          \* number of mouseup events handled so far
    x0, y0,             \* drawMandlebrot: the plane point of the pixel being evaluated
    x, y,               \* drawMandlebrot: the orbit z = x + iy
    iteration,          \* drawMandlebrot: iteration
    maxIterations,      \* drawMandlebrot: maxIterations
    pc                  \* position in the per-pixel loop: "idle", "loop", "done"

vars == <<canvasW, canvasH, hash, renderState, mouseDownCanvasX, mouseDownCanvasY,
          dragging, timers, background, overlay, cursor, lastDraw, lastEvent,
          nGestures, x0, y0, x, y, iteration, maxIterations, pc>>

appVars == <<canvasW, canvasH, hash, renderState, mouseDownCanvasX, mouseDownCanvasY,
             dragging, timers, background, overlay, cursor, lastDraw, lastEvent,
             nGestures>>

pixelVars == <<x0, y0, x, y, iteration, maxIterations, pc>>

----------------------------------------------------------------------------
(* Bounds of the model *)

\* mouse x coordinates are 0 .. MaxPixel
MaxPixel == 1
\* at most MaxGestures mouseup events in a behaviour
MaxGestures == 2
\* at most MaxPending deferred draw callbacks wait at a time
MaxPending == 1
\* buffer dimensions under SpecDefault are 1 .. MaxDim
MaxDim == 10
\* iteration caps under SpecEscape are 0 .. MaxIter
MaxIter == 3

----------------------------------------------------------------------------
(* JavaScript numbers *)

RECURSIVE GCD(_, _)
GCD(a, b) == IF b = 0 THEN a ELSE GCD(b, a % b)

Abs(i) == IF i < 0 THEN -i ELSE i

NaN == [k |-> "nan", s |-> 1, n |-> 0, d |-> 1]

Inf(s) == [k |-> "inf", s |-> s, n |-> 0, d |-> 1]

\* the finite number s*n/d (n >= 0, d > 0), in lowest terms
Fin(s, n, d) ==
    LET g == GCD(n, d) IN [k |-> "fin", s |-> s, n |-> n \div g, d |-> d \div g]

\* the number literal i, and the literal n/d (as 3.5 is 7/2)
Num(i) == Fin(IF i < 0 THEN -1 ELSE 1, Abs(i), 1)

Rat(i, d) == Fin(IF i < 0 THEN -1 ELSE 1, Abs(i), d)

IsZero(a) == a.k = "fin" /\ a.n = 0

\* isFinite(a)
IsFinite(a) == a.k = "fin"

\* unary minus
Neg(a) == IF a.k = "nan" THEN NaN ELSE [a EXCEPT !.s = -a.s]

\* a * b
Mul(a, b) ==
    IF a.k = "nan" \/ b.k = "nan" THEN NaN
    ELSE IF a.k = "inf" \/ b.k = "inf"
         THEN IF IsZero(a) \/ IsZero(b) THEN NaN ELSE Inf(a.s * b.s)
         ELSE Fin(a.s * b.s, a.n * b.n, a.d * b.d)

\* a / b
Div(a, b) ==
    IF a.k = "nan" \/ b.k = "nan" THEN NaN
    ELSE IF a.k = "inf"
         THEN IF b.k = "inf" THEN NaN ELSE Inf(a.s * b.s)
         ELSE IF b.k = "inf" THEN Fin(a.s * b.s, 0, 1)
         ELSE IF IsZero(b)
              THEN IF IsZero(a) THEN NaN ELSE Inf(a.s * b.s)
              ELSE Fin(a.s * b.s, a.n * b.d, a.d * b.n)

\* a + b
Add(a, b) ==
    IF a.k = "nan" \/ b.k = "nan" THEN NaN
    ELSE IF a.k = "inf"
         THEN IF b.k = "inf" /\ b.s # a.s THEN NaN ELSE a
         ELSE IF b.k = "inf" THEN b
         ELSE LET g == GCD(a.d, b.d)
                  m == a.s * a.n * (b.d \div g) + b.s * b.n * (a.d \div g)
              IN  IF m = 0
                  THEN Fin(IF a.s = -1 /\ b.s = -1 THEN -1 ELSE 1, 0, 1)
                  ELSE Fin(IF m < 0 THEN -1 ELSE 1, Abs(m), (a.d \div g) * b.d)

\* a - b
Sub(a, b) == Add(a, Neg(b))

\* a < b
Lt(a, b) ==
    IF a.k = "nan" \/ b.k = "nan" THEN FALSE
    ELSE IF a.k = "inf" THEN a.s = -1 /\ ~(b.k = "inf" /\ b.s = -1)
    ELSE IF b.k = "inf" THEN b.s = 1
    ELSE LET g == GCD(a.d, b.d)
         IN  a.s * a.n * (b.d \div g) < b.s * b.n * (a.d \div g)

\* a >= b
Geq(a, b) ==
    IF a.k = "nan" \/ b.k = "nan" THEN FALSE ELSE ~Lt(a, b)

\* a === b: NaN equals nothing, the two zeros are equal
NumEq(a, b) ==
    /\ a.k # "nan" /\ b.k # "nan"
    /\ \/ a = b
       \/ IsZero(a) /\ IsZero(b)

----------------------------------------------------------------------------
(* The view, its default and the renderer's pixel-to-plane map *)

View(re, im, scale) == [re |-> re, im |-> im, scale |-> scale]

\* getInitialScale with its two results exchanged
GetInitialScaleSwapped(w, h) ==
    IF Geq(Div(Num(w), Num(h)), Div(Rat(7, 2), Num(2)))
    THEN Div(Num(w), Rat(7, 2))
    ELSE Div(Num(h), Num(2))

\* getInitialScale(canvasW, canvasH); the literal 3.5 is 7/2
GetInitialScale(w, h) ==
    IF Geq(Div(Num(w), Num(h)), Div(Rat(7, 2), Num(2)))
    THEN Div(Num(h), Num(2))
    ELSE Div(Num(w), Rat(7, 2))

\* defaultRenderState(canvasW, canvasH); the literal -2.5 is -5/2
DefaultRenderState(w, h) ==
    LET scale == GetInitialScale(w, h)
    IN  View(Sub(Rat(-5, 2),
                 Div(Sub(Div(Num(w), scale), Sub(Num(1), Rat(-5, 2))), Num(2))),
             Add(Num(1),
                 Div(Sub(Div(Num(h), scale), Sub(Num(1), Num(-1))), Num(2))),
             scale)

\* drawMandlebrot: x0 of the pixel in column pixelX
PlaneX(view, pixelX) == Add(Div(Num(pixelX), view.scale), view.re)

\* drawMandlebrot: y0 of the pixel in row pixelY
PlaneY(view, pixelY) == Sub(Div(Num(pixelY), view.scale), view.im)

----------------------------------------------------------------------------
(* The state token in window.location.hash                                 *)
(*                                                                         *)
(* The fragment is a sequence of <<key, text>> pairs, one per "&"-joined   *)
(* part.  A text is what stands after "=": a decimal literal of n/d with   *)
(* an optional "-" (t = "dec"), "Infinity" with an optional "-", "NaN", or *)
(* anything parseFloat cannot read, an absent value included (t = "junk"). *)

Text(t, neg, n, d) == [t |-> t, neg |-> neg, n |-> n, d |-> d]

Junk == Text("junk", FALSE, 0, 1)

\* a number printed without its sign
NumberToStringNoSign(a) ==
    IF a.k = "nan" THEN Text("NaN", FALSE, 0, 1)
    ELSE IF a.k = "inf" THEN Text("Infinity", FALSE, 0, 1)
    ELSE Text("dec", FALSE, a.n, a.d)

\* `${a}`: Number::toString.  Both zeros print as "0".
NumberToString(a) ==
    IF a.k = "nan" THEN Text("NaN", FALSE, 0, 1)
    ELSE IF a.k = "inf" THEN Text("Infinity", a.s = -1, 0, 1)
    ELSE IF a.n = 0 THEN Text("dec", FALSE, 0, 1)
    ELSE Text("dec", a.s = -1, a.n, a.d)

\* parseFloat(text)
ParseFloat(text) ==
    IF text.t = "dec" THEN Fin(IF text.neg THEN -1 ELSE 1, text.n, text.d)
    ELSE IF text.t = "Infinity" THEN Inf(IF text.neg THEN -1 ELSE 1)
    ELSE NaN

\* saveRenderState(state): the fragment it writes
SaveRenderState(state) ==
    << <<"re", NumberToString(state.re)>>,
       <<"im", NumberToString(state.im)>>,
       <<"scale", NumberToString(state.scale)>> >>

\* loadRenderState: parsed[key] after the reduce, where a later pair overwrites
\* an earlier one of the same key.  A key that never occurs reads as undefined,
\* which isFinite, /, + and unary - all coerce to NaN: it is modelled as NaN.
Parsed(fragment, key) ==
    LET at == {i \in DOMAIN fragment : fragment[i][1] = key}
        last == CHOOSE i \in at : \A j \in at : j <= i
    IN  IF at = {} THEN NaN ELSE ParseFloat(fragment[last][2])

\* loadRenderState() || defaultRenderState(canvasW, canvasH): an empty fragment
\* loads as undefined, any other as an object, which is truthy
LoadOrDefault(fragment, w, h) ==
    IF fragment = <<>>
    THEN DefaultRenderState(w, h)
    ELSE View(Parsed(fragment, "re"), Parsed(fragment, "im"), Parsed(fragment, "scale"))

----------------------------------------------------------------------------
(* main(): draw() and the event listeners *)

Unset == View(NaN, NaN, NaN)

\* a background canvas nothing was drawn on (new, or after canvases.clear())
Blank == [state |-> "blank", view |-> Unset]

\* drawMandlebrot(context, renderState): every pixel of the buffer gets the
\* colour of its plane point (PlaneX, PlaneY) under the view, so the buffer is
\* recorded by the view it was drawn from; the per-pixel loop is PixelStart,
\* PixelStep and PixelDone below.
DrawMandlebrot(view) == [state |-> "drawn", view |-> view]

\* draw() with a guard that forgets the scale
DrawGuardNoScale(view) ==
    IsFinite(view.re) /\ IsFinite(view.im)

\* draw(): the condition under which it goes on past its early return
DrawGuard(view) ==
    IsFinite(view.scale) /\ IsFinite(view.re) /\ IsFinite(view.im)

\* an event record: its type, the x of a mouseup, and a view (for a mouseup the
\* view before it, for a timeout the view draw() checked when it set the timer)
Event(type, ex, view) == [type |-> type, x |-> ex, view |-> view]

\* draw(), called when the timers, background, overlay and cursor are tm, bg,
\* ov and cur
Draw(view, tm, bg, ov, cur) ==
    IF DrawGuard(view)
    THEN /\ cursor' = "progress"
         /\ background' = Blank
         /\ overlay' = "clear"
         /\ timers' = Append(tm, view)
         /\ lastDraw' = "scheduled"
    ELSE /\ cursor' = cur
         /\ background' = bg
         /\ overlay' = ov
         /\ timers' = tm
         /\ lastDraw' = "skipped"

\* main(), run when the page is loaded or loaded again: new canvases, the view
\* from the fragment or the default, the first draw()
Load ==
    /\ renderState' = LoadOrDefault(hash, canvasW, canvasH)
    /\ mouseDownCanvasX' = 0
    /\ mouseDownCanvasY' = 0
    /\ dragging' = FALSE
    /\ Draw(renderState', <<>>, Blank, "clear", "default")
    /\ lastEvent' = Event("load", 0, renderState')
    /\ UNCHANGED <<canvasW, canvasH, hash, nGestures, pixelVars>>

\* the callback draw() gave to setTimeout; it reads renderState when it runs
DeferredDraw ==
    /\ timers # <<>>
    /\ background' = DrawMandlebrot(renderState)
    /\ cursor' = "default"
    /\ hash' = SaveRenderState(renderState)
    /\ timers' = Tail(timers)
    /\ lastEvent' = Event("timeout", 0, Head(timers))
    /\ UNCHANGED <<canvasW, canvasH, renderState, mouseDownCanvasX, mouseDownCanvasY,
                   dragging, overlay, lastDraw, nGestures, pixelVars>>

\* clearRenderState(): window.location.href = ""
ClearRenderState == <<>>

\* a reset listener that also puts the default view back before it draws
ResetToDefault ==
    /\ Len(timers) < MaxPending
    /\ hash' = ClearRenderState
    /\ renderState' = DefaultRenderState(canvasW, canvasH)
    /\ Draw(renderState', timers, background, overlay, cursor)
    /\ lastEvent' = Event("reset", 0, renderState)
    /\ UNCHANGED <<canvasW, canvasH, mouseDownCanvasX, mouseDownCanvasY,
                   dragging, nGestures, pixelVars>>

\* the click listener of the reset button
Reset ==
    /\ Len(timers) < MaxPending
    /\ hash' = ClearRenderState
    /\ Draw(renderState, timers, background, overlay, cursor)
    /\ lastEvent' = Event("reset", 0, renderState)
    /\ UNCHANGED <<canvasW, canvasH, renderState, mouseDownCanvasX, mouseDownCanvasY,
                   dragging, nGestures, pixelVars>>

\* the mousedown / touchstart listener
MouseDown(mx, my) ==
    /\ mouseDownCanvasX' = mx
    /\ mouseDownCanvasY' = my
    /\ dragging' = TRUE
    /\ lastEvent' = Event("mousedown", 0, renderState)
    /\ UNCHANGED <<canvasW, canvasH, hash, renderState, timers, background, overlay,
                   cursor, lastDraw, nGestures, pixelVars>>

\* the mousemove / touchmove listener: the rubber band while dragging
MouseMove ==
    /\ overlay' = IF dragging THEN "rect" ELSE overlay
    /\ lastEvent' = Event("mousemove", 0, renderState)
    /\ UNCHANGED <<canvasW, canvasH, hash, renderState, mouseDownCanvasX,
                   mouseDownCanvasY, dragging, timers, background, cursor, lastDraw,
                   nGestures, pixelVars>>

\* mouseup: const x0 = mouseDownCanvasX / renderState.scale + renderState.topLeft.re
NewTopLeftRe(view, sx) == Add(Div(Num(sx), view.scale), view.re)

\* y0 of the mouseup listener written as the renderer writes its own y0
NewTopLeftImAsRenderer(view, sy) == Sub(Div(Num(sy), view.scale), view.im)

\* mouseup: const y0 = mouseDownCanvasY / -renderState.scale + renderState.topLeft.im
NewTopLeftIm(view, sy) == Add(Div(Num(sy), Neg(view.scale)), view.im)

\* the new scale without the inner parentheses: canvasW / (x - mouseDownCanvasX) / scale
NewScaleNoParens(view, sx, ex, w) == Div(Div(Num(w), Num(ex - sx)), view.scale)

\* mouseup: canvasW / ((x - mouseDownCanvasX) / renderState.scale)
NewScale(view, sx, ex, w) == Div(Num(w), Div(Num(ex - sx), view.scale))

\* the three assignments of the mouseup listener to renderState, in their order:
\* the scale is computed from the object after topLeft was written
ApplyDrag(view, sx, sy, ex, w) ==
    LET moved == [view EXCEPT !.re = NewTopLeftRe(view, sx),
                              !.im = NewTopLeftIm(view, sy)]
    IN  [moved EXCEPT !.scale = NewScale(moved, sx, ex, w)]

\* the mouseup / touchend listener
MouseUp(ex) ==
    /\ nGestures < MaxGestures
    /\ dragging' = FALSE
    /\ renderState' = ApplyDrag(renderState, mouseDownCanvasX, mouseDownCanvasY,
                                ex, canvasW)
    /\ Draw(renderState', timers, background, "clear", cursor)
    /\ lastEvent' = Event("mouseup", ex, renderState)
    /\ nGestures' = nGestures + 1
    /\ UNCHANGED <<canvasW, canvasH, hash, mouseDownCanvasX, mouseDownCanvasY,
                   pixelVars>>

----------------------------------------------------------------------------
(* The specification of the viewer *)

\* mouse x coordinates
Pixels == 0 .. MaxPixel

\* the points a drag starts at: those of the buffer's diagonal
StartPoints == { <<p, p>> : p \in Pixels }

Dec(i) == NumberToString(Num(i))

\* the fragments a page is opened with
InitialFragments ==
    { <<>>,
      << <<"scale", Dec(2)>>, <<"im", Dec(1)>>, <<"re", Text("dec", TRUE, 0, 1)>> >>,
      << <<"re", Dec(-2)>>, <<"im", Dec(1)>>, <<"scale", Dec(0)>> >>,
      << <<"re", Dec(-2)>>, <<"im", Dec(1)>> >>,
      << <<"re", Dec(-2)>>, <<"im", Dec(1)>>, <<"scale", Junk>> >> }

\* the buffer dimensions of the page
CanvasDims == { <<4, 2>> }

\* the page before its script has run, for buffer dimensions among dimensions
\* and a fragment among fragments
BeforeMain(dimensions, fragments) ==
    /\ \E dims \in dimensions : canvasW = dims[1] /\ canvasH = dims[2]
    /\ hash \in fragments
    /\ renderState = Unset
    /\ mouseDownCanvasX = 0
    /\ mouseDownCanvasY = 0
    /\ dragging = FALSE
    /\ timers = <<>>
    /\ background = Blank
    /\ overlay = "clear"
    /\ cursor = "default"
    /\ lastDraw = "none"
    /\ lastEvent = Event("none", 0, Unset)
    /\ nGestures = 0
    /\ x0 = Num(0) /\ y0 = Num(0) /\ x = Num(0) /\ y = Num(0)
    /\ iteration = 0
    /\ maxIterations = 0
    /\ pc = "idle"

Init == BeforeMain(CanvasDims, InitialFragments)

Loaded == lastEvent.type # "none"

Next ==
    \/ Load
    \/ Loaded /\ DeferredDraw
    \/ Loaded /\ Reset
    \/ Loaded /\ \E p \in StartPoints : MouseDown(p[1], p[2])
    \/ Loaded /\ MouseMove
    \/ Loaded /\ \E ex \in Pixels : MouseUp(ex)

Spec == Init /\ [][Next]_vars

----------------------------------------------------------------------------
(* The default view: main() run once on a page without a fragment, for every *)
(* buffer of up to MaxDim by MaxDim pixels and for the 700 by 400 buffer     *)

DefaultDims == ((1 .. MaxDim) \X (1 .. MaxDim)) \cup { <<700, 400>> }

InitDefault == BeforeMain(DefaultDims, { <<>> })

NextDefault == ~Loaded /\ Load

SpecDefault == InitDefault /\ [][NextDefault]_vars

----------------------------------------------------------------------------
(* The escape-time loop of drawMandlebrot, pixel by pixel, on a page opened  *)
(* with a fragment whose view puts integer or half-integer plane points      *)
(* under the pixels of an 8 by 8 buffer                                      *)

EscapeFragments ==
    { << <<"re", Dec(-2)>>, <<"im", Dec(2)>>, <<"scale", Dec(1)>> >>,
      << <<"re", Dec(-2)>>, <<"im", Dec(2)>>, <<"scale", Dec(2)>> >> }

EscapeDims == { <<8, 8>> }

\* let maxIterations = 10000: the cap is given to the loop as 0 .. MaxIter, for
\* the orbit of a point that stays bounded is a fraction whose denominator is
\* squared by every pass, and 10000 passes of exact arithmetic cannot be run
EscapeCaps == 0 .. MaxIter

\* the head of the for loop for the pixel in column pixelX and row pixelY
PixelStart(pixelX, pixelY, cap) ==
    /\ pc = "idle"
    /\ x0' = PlaneX(renderState, pixelX)
    /\ y0' = PlaneY(renderState, pixelY)
    /\ x' = Num(0)
    /\ y' = Num(0)
    /\ iteration' = 0
    /\ maxIterations' = cap
    /\ pc' = "loop"
    /\ UNCHANGED appVars

\* while (x * x + y * y < 2 * 2 && iteration < maxIterations)
LoopCondition ==
    /\ Lt(Add(Mul(x, x), Mul(y, y)), Mul(Num(2), Num(2)))
    /\ iteration < maxIterations

\* the loop body with y computed from the x already replaced
PixelStepNewX ==
    /\ pc = "loop"
    /\ LoopCondition
    /\ x' = Add(Sub(Mul(x, x), Mul(y, y)), x0)
    /\ y' = Add(Mul(Mul(Num(2), x'), y), y0)
    /\ iteration' = iteration + 1
    /\ UNCHANGED <<appVars, x0, y0, maxIterations, pc>>

\* one pass of the loop body
PixelStep ==
    /\ pc = "loop"
    /\ LoopCondition
    /\ LET xTemp == Add(Sub(Mul(x, x), Mul(y, y)), x0)
       IN  /\ y' = Add(Mul(Mul(Num(2), x), y), y0)
           /\ x' = xTemp
    /\ iteration' = iteration + 1
    /\ UNCHANGED <<appVars, x0, y0, maxIterations, pc>>

\* the loop is left and the pixel is coloured from iteration
PixelDone ==
    /\ pc = "loop"
    /\ ~LoopCondition
    /\ pc' = "done"
    /\ UNCHANGED <<appVars, x0, y0, x, y, iteration, maxIterations>>

\* i += 4: the variables of the loop body go out of scope
PixelNext ==
    /\ pc = "done"
    /\ x0' = Num(0) /\ y0' = Num(0) /\ x' = Num(0) /\ y' = Num(0)
    /\ iteration' = 0
    /\ maxIterations' = 0
    /\ pc' = "idle"
    /\ UNCHANGED appVars

InitEscape == BeforeMain(EscapeDims, EscapeFragments)

NextEscape ==
    \/ ~Loaded /\ Load
    \/ /\ Loaded
       /\ \E pixelX \in 0 .. (canvasW - 1), pixelY \in 0 .. (canvasH - 1) :
             \E cap \in EscapeCaps : PixelStart(pixelX, pixelY, cap)
    \/ PixelStep
    \/ PixelDone
    \/ PixelNext

SpecEscape == InitEscape /\ [][NextEscape]_vars

----------------------------------------------------------------------------
(* Properties *)

\* isValid of the specification: scale finite and > 0, topLeft finite
IsValid(view) ==
    /\ IsFinite(view.scale) /\ Lt(Num(0), view.scale)
    /\ IsFinite(view.re) /\ IsFinite(view.im)

\* the latest event was a mouseup that ended a drag begun at
\* (mouseDownCanvasX, mouseDownCanvasY) on the view lastEvent.view
AfterMouseUp == lastEvent.type = "mouseup"

\* a fragment that is not empty and lacks a key or holds a non-numeric value
Malformed(fragment) ==
    /\ fragment # <<>>
    /\ \E key \in {"re", "im", "scale"} :
          \/ \A i \in DOMAIN fragment : fragment[i][1] # key
          \/ \E i \in DOMAIN fragment : fragment[i][1] = key /\ fragment[i][2].t = "junk"

\* C1: draw() schedules a render only when the current view satisfies isValid
\* (scale finite and > 0, topLeft finite).  renderState changes only in
\* handlers that end with draw(), so the view draw() saw is the current one.
C1_DrawSchedulesOnlyValid ==
    lastDraw = "scheduled" => IsValid(renderState)

\* C2: the view the deferred callback renders and persists is a view that
\* passed the check of draw(), whatever gestures came in between.
C2_RenderedViewPassedCheck ==
    lastEvent.type = "timeout" =>
        /\ background.state = "drawn"
        /\ DrawGuard(background.view)
        /\ hash = SaveRenderState(background.view)

\* C3: when a malformed fragment was loaded, or a zero-width drag was applied,
\* the active view is the default view of the buffer dimensions.
C3_DefaultSubstituted ==
    /\ (lastEvent.type = "load" /\ Malformed(hash))
          => renderState = DefaultRenderState(canvasW, canvasH)
    /\ (AfterMouseUp /\ lastEvent.x = mouseDownCanvasX)
          => renderState = DefaultRenderState(canvasW, canvasH)

\* C4: a mouseup at the x of the mousedown, on a valid view with no render
\* pending, gives a view that fails isValid, and its draw() schedules nothing,
\* leaves the background buffer as it was and persists nothing.
C4_ZeroWidthDragSkipsRender ==
    [][ ( /\ lastEvent'.type = "mouseup"
          /\ nGestures' = nGestures + 1
          /\ lastEvent'.x = mouseDownCanvasX
          /\ IsValid(renderState)
          /\ timers = <<>> )
        => ( /\ ~IsValid(renderState')
             /\ lastDraw' = "skipped"
             /\ timers' = <<>>
             /\ background' = background
             /\ cursor' = cursor
             /\ hash' = hash ) ]_vars

\* C4 witness: a zero-width drag on a valid, fully rendered view was skipped
C4_Witness ==
    /\ AfterMouseUp
    /\ lastEvent.x = mouseDownCanvasX
    /\ IsValid(lastEvent.view)
    /\ lastDraw = "skipped"
    /\ timers = <<>>
    /\ background = DrawMandlebrot(lastEvent.view)
    /\ hash = SaveRenderState(lastEvent.view)

\* C5: the gesture leaves the view a render was scheduled for as it was: the
\* callback draws the view that draw() saw when it set the timer.
C5_ScheduledViewIsDrawn ==
    lastEvent.type = "timeout" => background.view = lastEvent.view

\* C6 as claimed: after a drag on a valid view the new topLeft is the
\* renderer's plane point of the start pixel, re = sx/scale + re and
\* im = sy/scale - im.
C6_TopLeftIsRendererPoint ==
    (AfterMouseUp /\ IsValid(lastEvent.view)) =>
        /\ NumEq(renderState.re, PlaneX(lastEvent.view, mouseDownCanvasX))
        /\ NumEq(renderState.im, PlaneY(lastEvent.view, mouseDownCanvasY))

\* C6 as amended: after a drag on a valid view the new topLeft.re is
\* sx/scale + re and the new topLeft.im is im - sy/scale, the negative of the
\* renderer's y0 of the start pixel (the renderer draws row 0 at -topLeft.im).
C6_TopLeftIsStartPoint ==
    (AfterMouseUp /\ IsValid(lastEvent.view)) =>
        /\ NumEq(renderState.re,
                 Add(Div(Num(mouseDownCanvasX), lastEvent.view.scale), lastEvent.view.re))
        /\ NumEq(renderState.im,
                 Sub(lastEvent.view.im, Div(Num(mouseDownCanvasY), lastEvent.view.scale)))
        /\ NumEq(renderState.im, Neg(PlaneY(lastEvent.view, mouseDownCanvasY)))

\* C6 witness: a drag that began below row 0 on a valid view moved topLeft.im
C6_Witness ==
    /\ AfterMouseUp
    /\ IsValid(lastEvent.view)
    /\ mouseDownCanvasY > 0
    /\ ~NumEq(renderState.im, lastEvent.view.im)
    /\ ~NumEq(renderState.im, PlaneY(lastEvent.view, mouseDownCanvasY))

\* C7: after a drag with end.x # start.x on a valid view, the scale is
\* bufferWidth / ((end.x - start.x) / oldScale) with the scale the view had
\* before the gesture, and the columns start.x and end.x of the old view lie
\* bufferWidth pixels apart in the new view.
C7_NewScale ==
    (AfterMouseUp /\ IsValid(lastEvent.view) /\ lastEvent.x # mouseDownCanvasX) =>
        /\ NumEq(renderState.scale,
                 Div(Num(canvasW),
                     Div(Num(lastEvent.x - mouseDownCanvasX), lastEvent.view.scale)))
        /\ NumEq(Mul(Sub(PlaneX(lastEvent.view, lastEvent.x),
                         PlaneX(lastEvent.view, mouseDownCanvasX)),
                     renderState.scale),
                 Num(canvasW))

\* C7 witness: a second drag, wider than one pixel, on a view whose scale an
\* earlier drag had changed
C7_Witness ==
    /\ AfterMouseUp
    /\ nGestures = 2
    /\ IsValid(lastEvent.view)
    /\ lastEvent.view.scale # DefaultRenderState(canvasW, canvasH).scale
    /\ lastEvent.x > mouseDownCanvasX
    /\ IsValid(renderState)

\* a <= b
Leq(a, b) == Lt(a, b) \/ NumEq(a, b)

\* C8: for all positive integer buffer dimensions the default view is valid,
\* its scale is h/2 if w/h >= 3.5/2 and w/3.5 otherwise, the reference
\* rectangle of 3.5 by 2 fits in the buffer and touches it on one axis, the
\* renderer's plane point of pixel (w/2, h/2) is (-0.75, 0), and the scale of
\* the 700 by 400 buffer is 200.
C8_DefaultFraming ==
    lastEvent.type = "load" =>
        LET w == canvasW
            h == canvasH
            s == renderState.scale
        IN  /\ IsValid(renderState)
            /\ s = (IF 4 * w >= 7 * h THEN Rat(h, 2) ELSE Rat(2 * w, 7))
            /\ Leq(Mul(Rat(7, 2), s), Num(w))
            /\ Leq(Mul(Num(2), s), Num(h))
            /\ NumEq(Mul(Rat(7, 2), s), Num(w)) \/ NumEq(Mul(Num(2), s), Num(h))
            /\ NumEq(Add(Div(Rat(w, 2), s), renderState.re), Rat(-3, 4))
            /\ NumEq(Sub(Div(Rat(h, 2), s), renderState.im), Num(0))
            /\ (w = 700 /\ h = 400) => s = Num(200)

\* C8 witness: the default view of the 700 by 400 buffer
C8_Witness ==
    /\ lastEvent.type = "load"
    /\ canvasW = 700 /\ canvasH = 400
    /\ renderState = View(Rat(-5, 2), Num(1), Num(200))

\* a field read back from the token reproduces the field that was written
SameNumber(a, b) == NumEq(a, b) \/ (a.k = "nan" /\ b.k = "nan")

\* the fragment in every order of its parts
Orders(fragment) ==
    { [i \in DOMAIN fragment |-> fragment[p[i]]] : p \in Permutations(DOMAIN fragment) }

RECURSIVE Orbit(_, _, _)
Orbit(cre, cim, n) ==
    IF n = 0 THEN <<Num(0), Num(0)>>
    ELSE LET z == Orbit(cre, cim, n - 1)
         IN  << Add(Sub(Mul(z[1], z[1]), Mul(z[2], z[2])), cre),
                Add(Mul(Num(2), Mul(z[1], z[2])), cim) >>

\* |z_n|^2 >= 4
Escaped(cre, cim, n) ==
    LET z == Orbit(cre, cim, n)
    IN  Geq(Add(Mul(z[1], z[1]), Mul(z[2], z[2])), Num(4))

\* min(cap, least n with |z_n|^2 >= 4)
EscapeTime(cre, cim, cap) ==
    CHOOSE n \in 0 .. cap :
        /\ \A k \in 0 .. (n - 1) : ~Escaped(cre, cim, k)
        /\ n = cap \/ Escaped(cre, cim, n)

\* C10: the escape-time loop ends: every pass adds one to iteration, and
\* iteration never exceeds the cap M, so the loop makes at most M passes (its
\* condition is total: a pass or the exit is always possible).  When it has ended iteration is min(M, least n with |z_n|^2 >= 4),
\* so 0 <= iteration <= M; c = 0 gives M and c = 5 + 5i gives 0 or a very
\* small count (at most 1).
C10_EscapeTime ==
    /\ [](pc = "loop" => iteration <= maxIterations)
    /\ [][(pc = "loop" /\ pc' = "loop") => iteration' = iteration + 1]_vars
    /\ [](pc = "done" =>
            /\ 0 <= iteration /\ iteration <= maxIterations
            /\ iteration = EscapeTime(x0, y0, maxIterations)
            /\ (IsZero(x0) /\ IsZero(y0)) => iteration = maxIterations
            /\ (x0 = Num(5) /\ y0 = Num(5)) => iteration <= 1)

\* C10 witness: a point that escapes after more than one pass and before the
\* cap, in a finished loop
C10_Witness ==
    /\ pc = "done"
    /\ 1 < iteration /\ iteration < maxIterations
    /\ maxIterations <= MaxIter
    /\ x0.d = 2

\* a step of the mouseup listener
MouseUpStep == lastEvent'.type = "mouseup" /\ nGestures' = nGestures + 1

\* C11: the view changes only when a mouseup ends a drag a mousedown began: a
\* mouseup that arrives while dragging is false leaves topLeft and scale as
\* they were and triggers no render, and no mousedown or mousemove step
\* changes the view.
C11_ViewChangesOnlyByDrag ==
    [][ /\ (MouseUpStep /\ ~dragging)
            => (renderState' = renderState /\ timers' = timers
                /\ background' = background)
        /\ (lastEvent'.type \in {"mousedown", "mousemove"})
            => renderState' = renderState ]_vars

\* C12: gesture and renderer agree on the coordinates: after a drag with
\* end.x # start.x on a valid view, the plane point the renderer gives pixel
\* (0, 0) under the new view is the plane point it gave the start pixel
\* (sx, sy) under the old view, in the real and in the imaginary component.
C12_GestureAgreesWithRenderer ==
    (AfterMouseUp /\ IsValid(lastEvent.view) /\ lastEvent.x # mouseDownCanvasX) =>
        /\ NumEq(PlaneX(renderState, 0), PlaneX(lastEvent.view, mouseDownCanvasX))
        /\ NumEq(PlaneY(renderState, 0), PlaneY(lastEvent.view, mouseDownCanvasY))

\* C12 witness: a drag from a pixel off both axes moved the corner, so the
\* renderer's point of pixel (0, 0) differs from what it was in both components
C12_Witness ==
    /\ AfterMouseUp
    /\ IsValid(lastEvent.view)
    /\ lastEvent.x # mouseDownCanvasX
    /\ mouseDownCanvasX > 0
    /\ mouseDownCanvasY > 0
    /\ ~NumEq(PlaneX(renderState, 0), PlaneX(lastEvent.view, 0))
    /\ ~NumEq(PlaneY(renderState, 0), PlaneY(lastEvent.view, 0))
    /\ NumEq(PlaneY(renderState, 0), PlaneY(lastEvent.view, mouseDownCanvasY))

\* C13: a non-finite scale is absorbing until the page is loaded again: every
\* step of the loaded page other than a load that starts with a non-finite
\* scale, drags with end.x # start.x included, ends with a non-finite scale,
\* and the draw() it calls, if any, schedules no render.
C13_InvalidViewAbsorbing ==
    [][ (Loaded /\ ~IsFinite(renderState.scale) /\ lastEvent'.type # "load")
        => ( /\ ~IsFinite(renderState'.scale)
             /\ lastDraw' = "skipped"
             /\ Len(timers') <= Len(timers) ) ]_vars

\* C13 witness: a drag with end.x # start.x applied to the scale Infinity a
\* zero-width drag had left, with topLeft finite: the scale stayed non-finite
\* and draw() skipped
C13_Witness ==
    /\ AfterMouseUp
    /\ nGestures = 2
    /\ lastEvent.view.scale.k = "inf"
    /\ lastEvent.x # mouseDownCanvasX
    /\ IsFinite(renderState.re) /\ IsFinite(renderState.im)
    /\ ~IsFinite(renderState.scale)
    /\ lastDraw = "skipped"

====
